---- MODULE Spec2Model ----
(***************************************************************************)
(* Model of deadline_cloud_for_houdini/submitter.py: the parsing of the    *)
(* hscript render listing into steps, the compilation of the job template, *)
(* the scene scan for asset references, the job bundle writer and the      *)
(* p_save_bundle / p_submit callbacks.                                     *)
(*                                                                         *)
(* A Python call either returns a value or raises: every modelled function *)
(* yields a record [exc, val] with exc = "none" when it returned.          *)
(***************************************************************************)
EXTENDS Integers, Sequences, FiniteSets, TLC

VARIABLES
    out,      \* stdout of `render -p -c -F <rop>`: the lines, already cut into tokens
    err,      \* TRUE when hscript's error stream is non-empty
    rop,      \* the parameters of the submitting node that the code evaluates
    fs,       \* what the code asks the file system (os.path.exists, open)
    refs,     \* hou.fileReferences(): (owning parameter or None, path)
    lastOp,   \* the function or callback that ran last
    failed,   \* the external call that raised during the last callback, or "none"
    ret,      \* [exc, val] of the last function; exc of a callback is what escaped it
    dir,      \* the job bundle directory: [exists, files]
    ui,       \* the last hou.ui.displayMessage: [severity, text]
    started   \* TRUE when start_submission was invoked by the last callback

vars == <<out, err, rop, fs, refs, lastOp, failed, ret, dir, ui, started>>

(***************************************************************************)
(* Bounds                                                                  *)
(***************************************************************************)
MaxLines == 2       \* lines of hscript output
MaxTokens == 4      \* integer tokens between the parentheses of a line
MaxRefs == 2        \* entries of hou.fileReferences()

(***************************************************************************)
(* The host scene                                                          *)
(***************************************************************************)
Submitter == "/out/deadline_cloud1"
Paths == {"/out/geo1", "/out/mantra1", "/out/deadline1", Submitter}

\* hou.node(path).type().name()
NodeTypeName(path) ==
    CASE path = "/out/geo1" -> "geometry"
      [] path = "/out/mantra1" -> "ifd"
      [] path = "/out/deadline1" -> "deadline"
      [] path = Submitter -> "deadline_cloud"

\* hou.node(path).type().nameWithCategory()
NodeTypeNameWithCategory(path) == "Driver/" \o NodeTypeName(path)

Ok(v) == [exc |-> "none", val |-> v]
Raise(e, v) == [exc |-> e, val |-> v]

\* the node, the file system, the bundle directory and the dialog before any
\* callback ran
NoRop == [separate_steps |-> FALSE, include_adaptor_wheels |-> FALSE,
          name |-> "job", description |-> "", adaptor_wheels |-> "/w"]
NoFs == [wheels |-> FALSE, override |-> FALSE]
NoDir == [exists |-> FALSE, files |-> <<>>]
NoUi == [severity |-> "none", text |-> "none"]

Quiet ==
    /\ lastOp = "init" /\ failed = "none" /\ ret = Ok(<<>>)
    /\ dir = NoDir /\ ui = NoUi /\ started = FALSE

\* the k-th integer of a frame listing: 1 10 2 then further tokens
FrameTok(k) == CASE k = 1 -> 1 [] k = 2 -> 10 [] k = 3 -> 2 [] OTHER -> k + 3
Franges == {[k \in 1..n |-> FrameTok(k)] : n \in 0..MaxTokens} \cup {<<5>>}
GoodFranges == {<<5>>, <<1, 10, 2>>}

\* the ids of a dependency list, ascending
SetToSeq(S) ==
    LET ids == SelectSeq([i \in 1..MaxLines |-> i], LAMBDA i : i \in S)
    IN [k \in 1..Len(ids) |-> ToString(ids[k])]

Blank == [rop_parts |-> <<>>, range_parts |-> <<>>, blank |-> TRUE]

\* one line `<id> [ <deps> ] <node> \t( <frames> )`: n.split("\t") and then
\* split(" ") of each part; the part before the tab ends with a space, so its
\* last token is the empty string
Line(id, deps, path, frange) ==
    [rop_parts |-> <<ToString(id), "[">> \o SetToSeq(deps) \o <<"]", path, "">>,
     range_parts |-> frange,
     blank |-> FALSE]

\* the ids the next line of a listing may wait for: none, the lines listed
\* before it (the order hscript prints), or any other line of the listing
DepIds(o, mode) ==
    CASE mode = "none" -> {}
      [] mode = "before" -> {i \in 1..Len(o) : ~o[i].blank}
      [] mode = "any" -> (1..MaxLines) \ {Len(o) + 1}

\* the lines the host may print next: line i carries the id i
NextLines(o, franges, mode) ==
    {Blank} \cup
    {Line(Len(o) + 1, d, p, f) : d \in SUBSET DepIds(o, mode), p \in Paths, f \in franges}

\* the dependency ids of a line, read back from its tokens
LineDeps(l) == {l.rop_parts[k] : k \in 3..(Len(l.rop_parts) - 3)}

\* line i waits for line j
DepOn(o, i, j) == i \in 1..Len(o) /\ ~o[i].blank /\ ToString(j) \in LineDeps(o[i])

\* the line names this node among the tokens before the tab
LineNames(l, path) == \E k \in 1..Len(l.rop_parts) : l.rop_parts[k] = path

\* the host scheduler lists the ids of listed lines only, and never a cycle; the
\* submitting node is the root of the listing, so no line waits for it
WellFormedOut(o) ==
    LET ids == 1..MaxLines IN
    /\ \A i \in ids : \A j \in ids :
          DepOn(o, i, j) => /\ j <= Len(o) /\ ~o[j].blank /\ ~DepOn(o, j, i)
                            /\ ~LineNames(o[j], Submitter)
    /\ \A i \in ids : \A j \in ids : \A k \in ids :
          ~(DepOn(o, i, j) /\ DepOn(o, j, k) /\ DepOn(o, k, i))

(***************************************************************************)
(* _get_rop_steps                                                          *)
(***************************************************************************)
\* [int(f) for f in range_parts]: "".split(" ") is [""] and int("") raises
RangeInts(range_parts) ==
    IF range_parts = <<>> THEN Raise("ValueError", <<>>) ELSE Ok(range_parts)

\* the dependency ids: rop_parts[1:-2] without the bracket tokens
Deps(rop_parts) ==
    SelectSeq(SubSeq(rop_parts, 2, Len(rop_parts) - 2), LAMBDA d : d \notin {"[", "]"})

\* rop_parts[-2]
RopPath(rop_parts) == rop_parts[Len(rop_parts) - 1]

\* a skip that forgets the deadline_cloud type
IsSubmitterTypeLegacyOnly(path) == NodeTypeName(path) \in {"deadline"}

\* skip deadline and deadline_cloud rops
IsSubmitterType(path) == NodeTypeName(path) \in {"deadline", "deadline_cloud"}

\* range_ints after the single-frame case
RangeInts3(range_ints) ==
    IF Len(range_ints) = 1 THEN <<range_ints[1], range_ints[1], 1>> ELSE range_ints

\* step_dict, for a line that is not skipped
StepDict(rop_parts, path, range_ints) ==
    IF Len(range_ints) < 3 THEN Raise("IndexError", <<>>)
    ELSE Ok(<<[id |-> rop_parts[1],
               name |-> path \o "-" \o rop_parts[1],
               deps |-> Deps(rop_parts),
               rop |-> path,
               start |-> range_ints[1],
               stop |-> range_ints[2],
               step |-> range_ints[3]]>>)

\* one pass of the loop body: [exc, val] with val the steps to append
ParseLine(n) ==
    IF n.blank THEN Ok(<<>>)
    ELSE IF RangeInts(n.range_parts).exc # "none" THEN RangeInts(n.range_parts)
    ELSE IF IsSubmitterType(RopPath(n.rop_parts)) THEN Ok(<<>>)
    ELSE StepDict(n.rop_parts, RopPath(n.rop_parts), RangeInts3(n.range_parts))

\* the passes one after the other: the first pass that raises ends the loop,
\* otherwise the steps come out in the order of the lines
Collect(passes) ==
    IF \E i \in 1..Len(passes) : passes[i].exc # "none"
    THEN Raise(passes[CHOOSE i \in 1..Len(passes) :
                         /\ passes[i].exc # "none"
                         /\ \A j \in 1..(i - 1) : passes[j].exc = "none"].exc, <<>>)
    ELSE Ok([k \in 1..Len(SelectSeq(passes, LAMBDA x : x.val # <<>>)) |->
                SelectSeq(passes, LAMBDA x : x.val # <<>>)[k].val[1]])

\* for n in out.split("\n")
ParseLines(o) == Collect([i \in 1..Len(o) |-> ParseLine(o[i])])

get_rop_steps(o, e) ==
    IF e THEN Raise("Exception", <<>>) ELSE ParseLines(o)

(***************************************************************************)
(* _get_job_template                                                       *)
(***************************************************************************)
\* hou.hipFile.path(); a path is kept as <<head, tail>>, the string head + tail
HipFile == <<"/proj/", "scene.hip">>

\* the bundled adaptor_override_environment.yaml, as yaml.safe_load returns it
override_environment ==
    [parameterDefinitions |->
        <<[name |-> "OverrideAdaptorWheels", type |-> "PATH", default |-> ""]>>,
     environment |-> [name |-> "OverrideAdaptorWheels"]]

\* id_steps = {n["id"]: n for n in rop_steps}: a later entry replaces an earlier one
HasId(rop_steps, d) == \E i \in 1..Len(rop_steps) : rop_steps[i].id = d
IdStep(rop_steps, d) ==
    rop_steps[CHOOSE i \in 1..Len(rop_steps) :
                 /\ rop_steps[i].id = d
                 /\ \A j \in (i + 1)..Len(rop_steps) : rop_steps[j].id # d]

\* ignore_input_nodes = "true"; if not separate_steps: ... ignore_input_nodes = "false"
IgnoreInputNodes(separate_steps) == IF separate_steps THEN "true" ELSE "false"

\* a collapse that keeps the last entry instead of the first
SelectedStepsLast(rop_steps, separate_steps) ==
    IF separate_steps THEN Ok(rop_steps)
    ELSE IF rop_steps = <<>> THEN Raise("IndexError", <<>>)
    ELSE Ok(<<rop_steps[Len(rop_steps)]>>)

\* if not separate_steps: rop_steps = [rop_steps[0]]
SelectedSteps(rop_steps, separate_steps) ==
    IF separate_steps THEN Ok(rop_steps)
    ELSE IF rop_steps = <<>> THEN Raise("IndexError", <<>>)
    ELSE Ok(<<rop_steps[1]>>)

\* "{start}-{stop}:{step}".format(**n)
FrameList(n) == ToString(n.start) \o "-" \o ToString(n.stop) \o ":" \o ToString(n.step)

\* step = {...}
StepBody(n, ignore_input_nodes) ==
    [name |-> n.name,
     range |-> FrameList(n),
     initData |-> [render_node |-> n.rop, ignore_input_nodes |-> ignore_input_nodes],
     runData |-> [render_node |-> n.rop, ignore_input_nodes |-> "true"]]

\* if n["deps"]: step["dependencies"] = [{"dependsOn": id_steps[d]["name"]} ...]
WithDependencies(n, id_steps, step) ==
    IF n.deps = <<>> THEN Ok(step)
    ELSE IF \E k \in 1..Len(n.deps) : ~HasId(id_steps, n.deps[k])
    THEN Raise("KeyError", step)
    ELSE Ok(step @@ [dependencies |->
            [k \in 1..Len(n.deps) |-> [dependsOn |-> IdStep(id_steps, n.deps[k]).name]]])

\* one pass of the loop over rop_steps: the step document of n
StepDocument(n, id_steps, ignore_input_nodes) ==
    WithDependencies(n, id_steps, StepBody(n, ignore_input_nodes))

\* the passes one after the other: the first pass that raises ends the loop
CollectDocuments(passes) ==
    IF \E i \in 1..Len(passes) : passes[i].exc # "none"
    THEN Raise("KeyError", <<>>)
    ELSE Ok([i \in 1..Len(passes) |-> passes[i].val])

\* for n in rop_steps
StepDocuments(sel, id_steps, ignore_input_nodes) ==
    CollectDocuments([i \in 1..Len(sel) |-> StepDocument(sel[i], id_steps, ignore_input_nodes)])

\* the template before the adaptor wheels are looked at
BaseTemplate(r, steps) ==
    [x \in {"specificationVersion", "name", "parameterDefinitions", "steps"}
           \cup (IF r.description # "" THEN {"description"} ELSE {}) |->
        CASE x = "specificationVersion" -> "jobtemplate-2023-09"
          [] x = "name" -> r.name
          [] x = "parameterDefinitions" ->
                <<[name |-> "HipFile", type |-> "PATH", default |-> HipFile]>>
          [] x = "steps" -> steps
          [] x = "description" -> r.description]

\* override_environment["parameterDefinitions"][0]["default"] = str(adaptor_wheels)
OverrideDefinitions(r) ==
    [override_environment.parameterDefinitions EXCEPT ![1].default = r.adaptor_wheels]

\* job_template["parameterDefinitions"].extend(...); jobEnvironments.append(...)
Extended(r, t) ==
    [x \in (DOMAIN t) \cup {"jobEnvironments"} |->
        CASE x = "parameterDefinitions" -> t.parameterDefinitions \o OverrideDefinitions(r)
          [] x = "jobEnvironments" ->
                Append(IF "jobEnvironments" \in DOMAIN t THEN t.jobEnvironments ELSE <<>>,
                       override_environment.environment)
          [] OTHER -> t[x]]

\* if include_adaptor_wheels: if os.path.exists(adaptor_wheels): with open(override_file) ...
WithAdaptorWheels(r, f, t) ==
    IF ~r.include_adaptor_wheels THEN Ok(t)
    ELSE IF ~f.wheels THEN Ok(t)
    ELSE IF ~f.override THEN Raise("FileNotFoundError", t)
    ELSE Ok(Extended(r, t))

NoTemplate == [steps |-> <<>>]

\* lines 242-266, given the step documents
Compile(r, f, docs) ==
    IF docs.exc # "none" THEN Raise(docs.exc, NoTemplate)
    ELSE WithAdaptorWheels(r, f, BaseTemplate(r, docs.val))

\* lines 176-241, given the extracted steps and the steps kept
CompileSteps(r, f, rop_steps, sel) ==
    IF sel.exc # "none" THEN Raise(sel.exc, NoTemplate)
    ELSE Compile(r, f, StepDocuments(sel.val, rop_steps, IgnoreInputNodes(r.separate_steps)))

\* lines 160-266, given what _get_rop_steps returned or raised
TemplateFrom(r, f, got) ==
    IF got.exc # "none" THEN Raise(got.exc, NoTemplate)
    ELSE CompileSteps(r, f, got.val, SelectedSteps(got.val, r.separate_steps))

get_job_template(r, f, o, e) == TemplateFrom(r, f, get_rop_steps(o, e))

(***************************************************************************)
(* _get_scene_asset_references                                             *)
(***************************************************************************)
IGNORE_REF_VALUES == {"opdef:", "oplib:", "temp:"}
IGNORE_REF_PARMS == {"taskgraphfile", "pdg_workingdir", "soho_program"}

\* n[0] of a file reference that no parameter owns
NoParm == [node |-> "None", name |-> "None"]

RefParms == {NoParm,
             [node |-> Submitter, name |-> "file"],
             [node |-> "/out/geo1", name |-> "file"],
             [node |-> "/out/geo1", name |-> "taskgraphfile"]}
RefPaths == {<<"opdef:", "/Sop/tool?icon.png">>, <<"oplib:", "/Sop/tool">>,
             <<"temp:", "render.ifd">>, <<"/proj/", "tex.png">>, <<"/proj/", "cache">>}
FileReferences == [parm : RefParms, path : RefPaths]

\* str.startswith(tuple of prefixes)
StartsWith(path, prefixes) == path[1] \in prefixes

\* os.path.isdir
IsDir(path) == path \in {<<"/proj/", "cache">>}

\* os.path.dirname
Dirname(path) == path[1]

\* the body of the loop over hou.fileReferences(): TRUE when n[1] is added
KeepsReference(n, rop_node) ==
    /\ (n.parm # NoParm) =>
          /\ n.parm.node # rop_node
          /\ ~StartsWith(n.path, IGNORE_REF_VALUES)
          /\ n.parm.name \notin IGNORE_REF_PARMS
    /\ ~IsDir(n.path)

\* rop_dir_map.get(type_name, None)
RopDirMap(type_name) ==
    CASE type_name = "Driver/ifd" -> "vm_picture"
      [] type_name = "Driver/karma" -> "picture"
      [] type_name = "Driver/geometry" -> "sopoutput"
      [] type_name = "Driver/alembic" -> "filename"
      [] type_name = "Sop/filecache" -> "file"
      [] type_name = "Sop/rop_geometry" -> "sopoutput"
      [] type_name = "Sop/rop_alembic" -> "filename"
      [] OTHER -> "None"

\* node.parm(out_parm).eval()
OutParmValue(path, out_parm) ==
    CASE path = "/out/geo1" /\ out_parm = "sopoutput" -> <<"/proj/geo", "/out.bgeo">>
      [] path = "/out/mantra1" /\ out_parm = "vm_picture" -> <<>>
      [] OTHER -> <<>>

NoAssets == [input_filenames |-> {}, input_directories |-> {}, output_directories |-> {}]

\* node.parm(out_parm).eval() of a step's node, <<>> when the type is not mapped
OutputPath(n) == OutParmValue(n.rop, RopDirMap(NodeTypeNameWithCategory(n.rop)))

\* lines 65-76, given the input file names and what _get_rop_steps returned or raised
AssetsFrom(input_filenames, got) ==
    IF got.exc # "none" THEN Raise(got.exc, NoAssets)
    ELSE Ok([input_filenames |-> input_filenames,
             input_directories |-> {},
             output_directories |->
                {Dirname(OutputPath(got.val[i])) :
                    i \in {j \in 1..Len(got.val) : OutputPath(got.val[j]) # <<>>}}])

get_scene_asset_references(rop_node, rf, o, e) ==
    AssetsFrom({HipFile} \cup {n.path : n \in {x \in rf : KeepsReference(x, rop_node)}},
               get_rop_steps(o, e))

(***************************************************************************)
(* _create_job_bundle                                                      *)
(***************************************************************************)
\* a bundle written in another order
BundleFilesValuesFirst == <<"parameter_values.yaml", "template.yaml", "asset_references.yaml">>

\* the files of a bundle, in the order the writer opens them
BundleFiles == <<"template.yaml", "parameter_values.yaml", "asset_references.yaml">>

\* the first k files of the bundle, the last one complete or not
Written(names, k, ok) == [i \in 1..k |-> [name |-> names[i], complete |-> (i < k \/ ok)]]

\* with open(job_bundle_path / name, "w") as f: deadline_yaml_dump(...)
\* one file after the other; open creates the file, and needs the directory; a
\* dump that raises leaves the file there, incomplete
WriteFiles(names, d, failAt) ==
    IF ~d.exists /\ Len(names) > 0
    THEN [exc |-> "FileNotFoundError", failed |-> "missing directory", val |-> d]
    ELSE IF \E i \in 1..Len(names) : failAt = "open:" \o names[i]
    THEN [exc |-> "OSError", failed |-> failAt,
          val |-> [d EXCEPT !.files = Written(names,
                      (CHOOSE i \in 1..Len(names) : failAt = "open:" \o names[i]) - 1, TRUE)]]
    ELSE IF \E i \in 1..Len(names) : failAt = "dump:" \o names[i]
    THEN [exc |-> "OSError", failed |-> failAt,
          val |-> [d EXCEPT !.files = Written(names,
                      CHOOSE i \in 1..Len(names) : failAt = "dump:" \o names[i], FALSE)]]
    ELSE [exc |-> "none", failed |-> "none",
          val |-> [d EXCEPT !.files = Written(names, Len(names), TRUE)]]

\* lines 285-291, given what _get_job_template returned or raised
BundleFrom(job_template, d, failAt) ==
    IF job_template.exc # "none"
    THEN [exc |-> job_template.exc, failed |-> "_get_job_template", val |-> d]
    ELSE IF failAt = "_get_parameter_values"
    THEN [exc |-> "AttributeError", failed |-> failAt, val |-> d]
    ELSE WriteFiles(BundleFiles, d, failAt)

create_job_bundle(r, f, o, d, failAt) ==
    BundleFrom(get_job_template(r, f, o, failAt = "hscript"), d, failAt)

BundleFailures ==
    {"hscript", "_get_parameter_values"} \cup
    {"open:" \o BundleFiles[i] : i \in 1..Len(BundleFiles)} \cup
    {"dump:" \o BundleFiles[i] : i \in 1..Len(BundleFiles)}

(***************************************************************************)
(* p_save_bundle and p_submit                                              *)
(***************************************************************************)
\* the calls made before the try block opens
PreCalls == <<"node.parm(name).evalAsString", "_get_asset_references">>

\* the calls of p_save_bundle's try block, in order
SaveCalls == <<"create_job_history_bundle_dir", "_create_job_bundle", "displayMessage:Saved">>

\* a p_submit that asks for the queue before it writes the bundle
SubmitCallsQueueFirst ==
    <<"get_boto3_client", "get_setting", "get_queue",
      "create_job_history_bundle_dir", "_create_job_bundle",
      "get_queue_user_boto3_session", "S3AssetManager", "SubmitJobProgressDialog",
      "start_submission">>

\* the calls of p_submit's try block, in order
SubmitCalls ==
    <<"get_boto3_client",
      "create_job_history_bundle_dir", "_create_job_bundle",
      "get_setting", "get_queue",
      "get_queue_user_boto3_session", "S3AssetManager", "SubmitJobProgressDialog",
      "start_submission">>

\* call c comes before position k of the block
Before(calls, c, k) == \E i \in 1..(k - 1) : i <= Len(calls) /\ calls[i] = c

\* the directory _create_job_bundle is handed: the one the helper made when
\* that call comes first
Handed(calls) ==
    IF \E j \in 1..Len(calls) :
          calls[j] = "_create_job_bundle" /\ Before(calls, "create_job_history_bundle_dir", j)
    THEN [exists |-> TRUE, files |-> <<>>] ELSE NoDir

\* the position of the first call that raises, past the end when none does:
\* failAt is the external call that raises when it is reached, b what
\* _create_job_bundle does
Stop(calls, failAt, b) ==
    IF \E i \in 1..Len(calls) :
          calls[i] = failAt \/ (calls[i] = "_create_job_bundle" /\ b.exc # "none")
    THEN CHOOSE i \in 1..Len(calls) :
            /\ calls[i] = failAt \/ (calls[i] = "_create_job_bundle" /\ b.exc # "none")
            /\ \A j \in 1..(i - 1) :
                  ~(calls[j] = failAt \/ (calls[j] = "_create_job_bundle" /\ b.exc # "none"))
    ELSE Len(calls) + 1

\* what the block has done when it stops at position `stop`
Outcome(calls, b, stop) ==
    [exc |-> IF stop > Len(calls) THEN "none"
             ELSE IF calls[stop] = "_create_job_bundle" THEN b.exc ELSE "Exception",
     failed |-> IF stop > Len(calls) THEN "none"
                ELSE IF calls[stop] = "_create_job_bundle" THEN b.failed ELSE calls[stop],
     dir |-> IF Before(calls, "_create_job_bundle", stop + 1) THEN b.val
             ELSE IF Before(calls, "create_job_history_bundle_dir", stop)
             THEN [exists |-> TRUE, files |-> <<>>] ELSE NoDir,
     started |-> Before(calls, "start_submission", stop + 1),
     saved |-> Before(calls, "displayMessage:Saved", stop)]

\* the statements of a block one after the other, until one raises
RunWith(calls, failAt, b) == Outcome(calls, b, Stop(calls, failAt, b))

RunCalls(calls, failAt) ==
    RunWith(calls, failAt, create_job_bundle(rop, fs, out, Handed(calls), failAt))

Range(q) == {q[i] : i \in 1..Len(q)}

\* a callback: the calls before the try block, whose exceptions escape, then the
\* try block, whose exceptions end in hou.ui.displayMessage(str(exc), Warning)
CallbackWith(name, pre, st) ==
    /\ lastOp' = name
    /\ ret' = IF pre.exc # "none" THEN Raise(pre.exc, <<>>) ELSE Ok(<<>>)
    /\ failed' = IF pre.exc # "none" THEN pre.failed ELSE st.failed
    /\ dir' = IF pre.exc # "none" THEN NoDir ELSE st.dir
    /\ started' = (pre.exc = "none" /\ st.started)
    /\ ui' = IF pre.exc # "none" THEN NoUi
             ELSE IF st.exc # "none" THEN [severity |-> "Warning", text |-> st.exc]
             ELSE IF st.saved THEN [severity |-> "Message", text |-> "Saved"]
             ELSE NoUi

Callback(name, calls, failAt) ==
    CallbackWith(name, RunCalls(PreCalls, failAt), RunCalls(calls, failAt))

(***************************************************************************)
(* Specification of the step extraction alone                              *)
(***************************************************************************)
InitSteps ==
    /\ out = <<>>
    /\ err = FALSE
    /\ rop = NoRop /\ fs = NoFs /\ refs = {}
    /\ Quiet

\* the artist adds a node to the render graph: hscript will list one more line
AddLine(franges, mode) ==
    /\ Len(out) < MaxLines
    /\ \E l \in NextLines(out, franges, mode) : out' = Append(out, l)
    /\ err' = FALSE /\ lastOp' = "init" /\ failed' = "none" /\ ret' = Ok(<<>>)
    /\ dir' = NoDir /\ ui' = NoUi /\ started' = FALSE
    /\ UNCHANGED <<rop, fs, refs>>

AddLineSteps == AddLine(Franges, "before")

\* out, err = hou.hscript(cmd)
GetRopSteps ==
    \E e \in BOOLEAN :
        /\ WellFormedOut(out)
        /\ err' = e
        /\ lastOp' = "_get_rop_steps"
        /\ ret' = get_rop_steps(out, e)
        /\ UNCHANGED <<out, rop, fs, refs, failed, dir, ui, started>>

NextSteps == AddLineSteps \/ GetRopSteps

SpecSteps == InitSteps /\ [][NextSteps]_vars

(***************************************************************************)
(* Properties of the step extraction (checked under SpecSteps)             *)
(***************************************************************************)
RanRopSteps == lastOp = "_get_rop_steps"

\* C6: the submitting operator's node path is never the `rop` of an extracted
\* step, and a line that names the submitting operator yields no step at all.
C6_SubmitterNeverAStep ==
    (RanRopSteps /\ ret.exc = "none") =>
        /\ \A i \in 1..Len(ret.val) : ret.val[i].rop # Submitter
        /\ \A k \in 1..Len(out) :
              (~out[k].blank /\ LineNames(out[k], Submitter)) =>
                  \A i \in 1..Len(ret.val) : ret.val[i].id # out[k].rop_parts[1]

\* a listing with the submitting operator's own line and a line that waits for
\* another one was parsed, and a step came out of it
C6_Witness ==
    /\ RanRopSteps /\ ret.exc = "none"
    /\ \E k \in 1..Len(out) : ~out[k].blank /\ LineNames(out[k], Submitter)
                               /\ Len(out[k].rop_parts) > 5
    /\ Len(ret.val) >= 1

\* C10: the frame tokens of every non-blank line of a render node decide the
\* outcome by their count: one token f gives (f, f, 1), three tokens give
\* (start, stop, step) in that order, and any other count raises an error and
\* yields no step.
C10_FrameTokenCount ==
    (RanRopSteps /\ ~err) =>
        \A k \in 1..Len(out) :
            (~out[k].blank /\ ~LineNames(out[k], Submitter) /\ ~LineNames(out[k], "/out/deadline1")) =>
                LET toks == out[k].range_parts
                    mine == {i \in 1..Len(ret.val) : ret.val[i].id = out[k].rop_parts[1]}
                IN /\ Len(toks) \notin {1, 3} => (ret.exc # "none" /\ mine = {})
                   /\ (Len(toks) = 1 /\ ret.exc = "none") =>
                        \A i \in mine : <<ret.val[i].start, ret.val[i].stop, ret.val[i].step>>
                                          = <<toks[1], toks[1], 1>>
                   /\ (Len(toks) = 3 /\ ret.exc = "none") =>
                        \A i \in mine : <<ret.val[i].start, ret.val[i].stop, ret.val[i].step>> = toks

(***************************************************************************)
(* Properties of the template compiler (checked under SpecTemplate)        *)
(***************************************************************************)
RanTemplate == lastOp = "_get_job_template"

\* the step list the compiler was given
Extracted == get_rop_steps(out, err)

HasDependencies(doc) == "dependencies" \in DOMAIN doc

\* C1: with separate_steps set and N extracted steps of which M have
\* dependencies, the template is returned with exactly N step documents, M of
\* them with a `dependencies` field, every dependsOn naming a step document of
\* the same template.
C1_StepsAndDependencies ==
    (RanTemplate /\ rop.separate_steps /\ ~rop.include_adaptor_wheels
                 /\ Extracted.exc = "none") =>
        LET rs == Extracted.val
            docs == ret.val.steps
        IN /\ ret.exc = "none"
           /\ Len(docs) = Len(rs)
           /\ Cardinality({i \in 1..Len(docs) : HasDependencies(docs[i])})
                = Cardinality({i \in 1..Len(rs) : rs[i].deps # <<>>})
           /\ \A i \in 1..Len(docs) : HasDependencies(docs[i]) =>
                 \A k \in 1..Len(docs[i].dependencies) :
                    \E j \in 1..Len(docs) : docs[j].name = docs[i].dependencies[k].dependsOn

\* C2: without separate_steps a returned template has exactly one step document,
\* built from the first extracted step, whose init data say ignore_input_nodes: false.
C2_SingleStep ==
    (RanTemplate /\ ~rop.separate_steps /\ ret.exc = "none") =>
        LET rs == Extracted.val
            docs == ret.val.steps
        IN /\ Len(docs) = 1
           /\ docs[1].name = rs[1].name
           /\ docs[1].initData.render_node = rs[1].rop
           /\ docs[1].initData.ignore_input_nodes = "false"

\* a template was compiled without separate_steps from two extracted steps
C2_Witness ==
    /\ RanTemplate /\ ~rop.separate_steps /\ ret.exc = "none"
    /\ Len(Extracted.val) >= 2
    /\ Extracted.val[1].rop # Extracted.val[2].rop

\* the template the compiler builds when the adaptor wheels are not asked for
Plain == get_job_template([rop EXCEPT !.include_adaptor_wheels = FALSE], fs, out, err)

\* C8: with include_adaptor_wheels set, an existing wheels path appends the
\* override's parameter definitions (the first with the wheels path as default)
\* and its environment; a wheels path that does not exist or a missing override
\* file leaves the template as it is, without an error.
C8_AdaptorWheels ==
    (RanTemplate /\ rop.include_adaptor_wheels /\ Plain.exc = "none") =>
        LET base == Plain.val IN
        /\ (fs.wheels /\ fs.override) =>
              /\ ret.exc = "none"
              /\ Len(ret.val.parameterDefinitions) = Len(base.parameterDefinitions) + 1
              /\ ret.val.parameterDefinitions[Len(base.parameterDefinitions) + 1].default
                    = rop.adaptor_wheels
              /\ ret.val.jobEnvironments = <<override_environment.environment>>
        /\ (~fs.wheels \/ ~fs.override) =>
              /\ ret.exc = "none"
              /\ ret.val = base

(***************************************************************************)
(* Specification of the template compiler alone                            *)
(***************************************************************************)
Rops == {[NoRop EXCEPT !.separate_steps = s, !.include_adaptor_wheels = w] :
            s \in BOOLEAN, w \in BOOLEAN}
FileSystems == [wheels : BOOLEAN, override : BOOLEAN]

InitTemplate ==
    /\ out = <<>>
    /\ err = FALSE
    /\ rop \in Rops /\ fs \in FileSystems /\ refs = {}
    /\ Quiet

AddLineTemplate == AddLine(GoodFranges, "any")

GetJobTemplate ==
    /\ WellFormedOut(out)
    /\ err' = FALSE
    /\ lastOp' = "_get_job_template"
    /\ ret' = get_job_template(rop, fs, out, FALSE)
    /\ UNCHANGED <<out, rop, fs, refs, failed, dir, ui, started>>

NextTemplate == AddLineTemplate \/ GetJobTemplate

SpecTemplate == InitTemplate /\ [][NextTemplate]_vars

(***************************************************************************)
(* Specification of the scene scan alone                                   *)
(***************************************************************************)
InitAssets ==
    /\ out = <<>>
    /\ err = FALSE
    /\ rop = NoRop /\ fs = NoFs /\ refs = {}
    /\ Quiet

AddLineAssets == AddLine({<<1, 10, 2>>}, "none")

\* the artist adds a file reference to the scene
AddReference ==
    /\ Cardinality(refs) < MaxRefs
    /\ \E n \in FileReferences \ refs : refs' = refs \cup {n}
    /\ err' = FALSE /\ lastOp' = "init" /\ failed' = "none" /\ ret' = Ok(<<>>)
    /\ UNCHANGED <<out, rop, fs, dir, ui, started>>

GetSceneAssetReferences ==
    \E e \in BOOLEAN :
        /\ err' = e
        /\ lastOp' = "_get_scene_asset_references"
        /\ ret' = get_scene_asset_references(Submitter, refs, out, e)
        /\ UNCHANGED <<out, rop, fs, refs, failed, dir, ui, started>>

NextAssets == AddLineAssets \/ AddReference \/ GetSceneAssetReferences

SpecAssets == InitAssets /\ [][NextAssets]_vars

(***************************************************************************)
(* Specification of the callbacks and of the bundle writer                 *)
(***************************************************************************)
Init ==
    /\ out = <<>>
    /\ err = FALSE
    /\ rop \in Rops /\ fs \in FileSystems /\ refs = {}
    /\ Quiet

AddLineScene == AddLine({<<1, 10, 2>>}, "none")

SaveFailures == Range(PreCalls) \cup (Range(SaveCalls) \ {"_create_job_bundle"}) \cup BundleFailures
SubmitFailures == Range(PreCalls) \cup (Range(SubmitCalls) \ {"_create_job_bundle"}) \cup BundleFailures

\* no callback is running and no dialog is open
Idle == lastOp = "init"

\* the artist closes the modal dialog of the last callback
Dismiss ==
    /\ ~Idle
    /\ err' = FALSE /\ lastOp' = "init" /\ failed' = "none" /\ ret' = Ok(<<>>)
    /\ dir' = NoDir /\ ui' = NoUi /\ started' = FALSE
    /\ UNCHANGED <<out, rop, fs, refs>>

p_save_bundle ==
    \E failAt \in SaveFailures \cup {"none"} :
        /\ Idle
        /\ Callback("p_save_bundle", SaveCalls, failAt)
        /\ err' = (failAt = "hscript")
        /\ UNCHANGED <<out, rop, fs, refs>>

p_submit ==
    \E failAt \in SubmitFailures \cup {"none"} :
        /\ Idle
        /\ Callback("p_submit", SubmitCalls, failAt)
        /\ err' = (failAt = "hscript")
        /\ UNCHANGED <<out, rop, fs, refs>>

\* _create_job_bundle on a directory of the caller's choosing
CreateJobBundle ==
    \E exists \in BOOLEAN, failAt \in BundleFailures \cup {"none"} :
      \E b \in {create_job_bundle(rop, fs, out, [exists |-> exists, files |-> <<>>], failAt)} :
        /\ Idle
        /\ lastOp' = "_create_job_bundle"
        /\ ret' = Raise(b.exc, <<>>)
        /\ failed' = b.failed
        /\ dir' = b.val
        /\ err' = (failAt = "hscript")
        /\ ui' = NoUi /\ started' = FALSE
        /\ UNCHANGED <<out, rop, fs, refs>>

Next == AddLineScene \/ Dismiss \/ p_save_bundle \/ p_submit \/ CreateJobBundle

Spec == Init /\ [][Next]_vars

(***************************************************************************)
(* Properties of the scene scan (checked under SpecAssets)                 *)
(***************************************************************************)
RanAssets == lastOp = "_get_scene_asset_references"

\* C7: input_filenames never holds a path that starts with opdef:, oplib: or
\* temp:, and never a path that only a parameter of the submitting node gives.
C7_NoIgnoredOrOwnPaths ==
    (RanAssets /\ ret.exc = "none") =>
        \A path \in ret.val.input_filenames :
            /\ ~StartsWith(path, {"opdef:", "oplib:", "temp:"})
            /\ \/ path = HipFile
               \/ \E n \in refs : n.path = path /\ n.parm.node # Submitter

(***************************************************************************)
(* Properties of the callbacks and the bundle writer (checked under Spec)  *)
(***************************************************************************)
RanCallback == lastOp \in {"p_save_bundle", "p_submit"}

FileNames(d) == [i \in 1..Len(d.files) |-> d.files[i].name]
Complete(d) == \A i \in 1..Len(d.files) : d.files[i].complete
ThreeFiles == <<"template.yaml", "parameter_values.yaml", "asset_references.yaml">>

\* C3: when the listing yields no step, the save or submit callback fails: no
\* bundle is reported as saved and start_submission is not invoked, whatever
\* separate_steps is.
C3_NoStepsFailsTheAction ==
    (RanCallback /\ Extracted.exc = "none" /\ Extracted.val = <<>>) =>
        /\ ui.text # "Saved"
        /\ ~started

\* C4: every failure in p_save_bundle or p_submit, the reading of the node's
\* parameters and path lists included, ends in a displayed message and a normal
\* return: nothing escapes the callback.
C4_EveryFailureDisplayed ==
    RanCallback =>
        /\ ret.exc = "none"
        /\ failed # "none" => ui.severity = "Warning"

FarmCalls == {"get_boto3_client", "get_queue", "get_queue_user_boto3_session",
              "S3AssetManager", "start_submission"}

\* C5 as written: whichever farm client or upload manager call of p_submit
\* fails, get_boto3_client included, the failure is displayed and the three
\* bundle files are already in the bundle directory.
C5_BundleBeforeEveryFarmCall ==
    (lastOp = "p_submit" /\ failed \in FarmCalls) =>
        /\ ret.exc = "none" /\ ui.severity = "Warning"
        /\ FileNames(dir) = ThreeFiles /\ Complete(dir)

\* C5 as the code has it: a failure of get_queue, get_queue_user_boto3_session,
\* S3AssetManager or start_submission is displayed with the three bundle files
\* already written; a failure of get_boto3_client is displayed too, but comes
\* before the bundle directory is created, so nothing is on disk.
C5_BundleBeforeQueueCalls ==
    (lastOp = "p_submit" /\ failed \in FarmCalls) =>
        /\ ret.exc = "none" /\ ui.severity = "Warning"
        /\ failed # "get_boto3_client" => (FileNames(dir) = ThreeFiles /\ Complete(dir))
        /\ failed = "get_boto3_client" => dir = NoDir

\* get_queue failed in p_submit
C5_Witness ==
    /\ lastOp = "p_submit" /\ failed = "get_queue"
    /\ ui.severity = "Warning"

RanBundle == lastOp = "_create_job_bundle"

\* C9 as written: _create_job_bundle creates the directory when it is absent and,
\* when the template compiles and no write fails, leaves the three files in it.
C9_CreatesDirectory ==
    (RanBundle /\ failed \notin BundleFailures \cup {"_get_job_template"}) =>
        /\ dir.exists
        /\ ret.exc = "none"
        /\ FileNames(dir) = ThreeFiles /\ Complete(dir)

\* C9 as the code has it: in an existing directory a successful call leaves
\* exactly template.yaml, parameter_values.yaml and asset_references.yaml,
\* written in that order, and a failure leaves what was written before it (the
\* file being written included, incomplete); the directory is never created:
\* when it is absent the first open raises and nothing is written.
C9_BundleWriter ==
    RanBundle =>
        /\ dir.exists =>
              /\ \E k \in 0..3 : FileNames(dir) = SubSeq(ThreeFiles, 1, k)
              /\ \A i \in 1..(Len(dir.files) - 1) : dir.files[i].complete
              /\ ret.exc = "none" <=> (Len(dir.files) = 3 /\ Complete(dir))
              /\ failed = "open:parameter_values.yaml" =>
                    (FileNames(dir) = <<"template.yaml">> /\ Complete(dir))
              /\ failed = "dump:asset_references.yaml" =>
                    (FileNames(dir) = ThreeFiles /\ ~dir.files[3].complete)
        /\ ~dir.exists =>
              /\ dir.files = <<>>
              /\ ret.exc # "none"
              /\ failed \in {"_get_job_template", "_get_parameter_values", "missing directory"}

\* the writer failed on the third file of an existing directory
C9_Witness ==
    /\ RanBundle /\ dir.exists
    /\ failed = "dump:asset_references.yaml"
    /\ Len(dir.files) = 3

====
